---- MODULE Spec2Model ----
(***************************************************************************)
(* OCREngine.make_searchable of pdf_editor_pro_v2.py as a state machine:   *)
(* the page loop, the per-word fit and write, the adapters it calls        *)
(* (PDFDocument.render_page, pytesseract.image_to_data,                    *)
(* fitz.get_text_length, page.insert_text) and the exceptions they raise.  *)
(* Python floats are modelled by exact rationals <<n, d>> with d > 0;      *)
(* Python strings by sequences of one-character strings.                   *)
(***************************************************************************)
EXTENDS Integers, Sequences, FiniteSets, TLC

\* ------------------------------------------------------------------ bounds
\* most pages of a document
MaxPages == 2
\* most words the OCR adapter returns over a whole document
MaxWords == 2
\* most documents the application makes or opens
MaxDocs == 3
\* most OCR workers the application starts
MaxWorkers == 2
\* largest component of a pixel box the mapping is tried on
MaxCoord == 2
\* largest factor a pixel box is scaled by
MaxFactor == 2

\* ------------------------------------------------------- program constants
\* conf < 30 is rejected
MinConf == 30
\* fs = max(4, min(72, fs))
MinFont == 4
MaxFont == 72
\* render_mode=3
RenderMode == 3
\* zoom=2.0
Zoom == 2

None == "None"

\* --------------------------------------------------- float arithmetic
RECURSIVE GCD(_, _)
GCD(a, b) == IF b = 0 THEN a ELSE GCD(b, a % b)

Abs(n) == IF n < 0 THEN 0 - n ELSE n

\* the rational n/d in lowest terms, d > 0
Rat(n, d) ==
    LET g == GCD(Abs(n), Abs(d))
        s == IF d < 0 THEN 0 - 1 ELSE 1
    IN  <<(s * n) \div g, (s * d) \div g>>

RInt(n) == <<n, 1>>
RMul(a, b) == Rat(a[1] * b[1], a[2] * b[2])
RDiv(a, b) == Rat(a[1] * b[2], a[2] * b[1])
RAdd(a, b) == Rat(a[1] * b[2] + b[1] * a[2], a[2] * b[2])
RLt(a, b) == a[1] * b[2] < b[1] * a[2]
RLe(a, b) == a[1] * b[2] <= b[1] * a[2]
\* Python's min(a, b) and max(a, b): the first argument unless the second is
\* strictly smaller (larger)
PyMin(a, b) == IF RLt(b, a) THEN b ELSE a
PyMax(a, b) == IF RLt(a, b) THEN b ELSE a

\* the literal 0.85
CapRatio == <<85, 100>>

\* ------------------------------------------------------------- strings
Digits == {"0", "1", "2", "3", "4", "5", "6", "7", "8", "9"}
DigitVal(c) ==
    CASE c = "0" -> 0 [] c = "1" -> 1 [] c = "2" -> 2 [] c = "3" -> 3
      [] c = "4" -> 4 [] c = "5" -> 5 [] c = "6" -> 6 [] c = "7" -> 7
      [] c = "8" -> 8 [] c = "9" -> 9

\* str.strip(): leading and trailing blanks removed
RECURSIVE LStrip(_)
LStrip(s) == IF s # <<>> /\ Head(s) = " " THEN LStrip(Tail(s)) ELSE s
RECURSIVE RStrip(_)
RStrip(s) ==
    IF s # <<>> /\ s[Len(s)] = " " THEN RStrip(SubSeq(s, 1, Len(s) - 1)) ELSE s
Strip(s) == RStrip(LStrip(s))

\* str.lstrip('-'): every leading minus sign removed
RECURSIVE LStripMinus(_)
LStripMinus(s) == IF s # <<>> /\ Head(s) = "-" THEN LStripMinus(Tail(s)) ELSE s

\* str.isdigit(): non-empty and digits only
IsDigit(s) == s # <<>> /\ \A i \in 1..Len(s) : s[i] \in Digits

RECURSIVE DecVal(_)
DecVal(s) == IF s = <<>> THEN 0 ELSE 10 * DecVal(SubSeq(s, 1, Len(s) - 1)) + DigitVal(s[Len(s)])

\* int(v) of a value whose str() is s: one optional minus sign, then digits;
\* anything else raises ValueError
PyIntRaises(s) == ~(IsDigit(s) \/ (s # <<>> /\ Head(s) = "-" /\ IsDigit(Tail(s))))
PyInt(s) == IF IsDigit(s) THEN DecVal(s) ELSE 0 - DecVal(Tail(s))

\* SeqsUpTo(S, n): the sequences over S of length at most n
RECURSIVE SeqsUpTo(_, _)
SeqsUpTo(S, n) ==
    IF n <= 0 THEN {<<>>}
    ELSE LET shorter == SeqsUpTo(S, n - 1)
         IN  shorter \cup {Append(s, x) : s \in {t \in shorter : Len(t) = n - 1}, x \in S}

\* ------------------------------------------------- the adapters' answers
\* One row of pytesseract's image_to_data: text, str(conf), and the pixel box.
Word(t, c, l, tp, w, h) ==
    [text |-> t, conf |-> c, left |-> l, top |-> tp, width |-> w, height |-> h]

Hi == <<"H", "i">>
\* the rows the OCR adapter may return
Words ==
    { Word(Hi, <<"9", "0">>, 100, 100, 200, 40),
      Word(<<" ", "H", "i", " ">>, <<"3", "0">>, 10, 10, 40, 4),
      Word(Hi, <<"-", "1">>, 100, 100, 200, 40),
      Word(Hi, <<"9", "5", ".", "5">>, 100, 100, 200, 40),
      Word(Hi, <<"1", "5", "0">>, 10, 10, 40, 4),
      Word(Hi, <<"-", "-", "5">>, 100, 100, 200, 40),
      Word(<<" ", " ">>, <<"1", "0", "0">>, 100, 100, 200, 40),
      Word(<<"#">>, <<"9", "0">>, 100, 100, 200, 40),
      Word(<<"@">>, <<"9", "0">>, 100, 100, 200, 40),
      Word(Hi, <<"9", "0">>, 100, 100, 200, 0),
      Word(Hi, <<"9", "0">>, 100, 100, 0, 400) }

\* page.rect of every page, in points
PageRect == <<512, 512>>
\* img.size of a rendered page: the 2x bitmap, or a degenerate one
BitmapSizes == {<<Zoom * PageRect[1], Zoom * PageRect[2]>>, <<0, Zoom * PageRect[2]>>,
                <<Zoom * PageRect[1], 0>>}

\* fitz.get_text_length(text, fontsize=fs) in the base font: the sum of the
\* glyphs' advances times fs; "#" stands for a glyph the measurement raises
\* on.
GlyphWidth(c) ==
    CASE c = "H" -> <<3, 4>> [] c = "i" -> <<1, 4>> [] OTHER -> <<0, 1>>
RECURSIVE UnitWidth(_)
UnitWidth(s) == IF s = <<>> THEN <<0, 1>> ELSE RAdd(GlyphWidth(Head(s)), UnitWidth(Tail(s)))
Has(s, c) == \E i \in 1..Len(s) : s[i] = c
get_text_length_raises(text) == Has(text, "#")
get_text_length(text, fs) == RMul(fs, UnitWidth(text))

\* page.insert_text(...): "@" stands for a character the writer raises on
insert_text_raises(text) == Has(text, "@")

\* ------------------------------------------------------------------ state
VARIABLES
    ocrLib,       \* the environment: "import pytesseract" succeeds
    docOpen,      \* PDFDocument.doc is not None
    pageText,     \* PDFDocument.doc: per page, the text entries inserted into it
    is_modified,  \* PDFDocument.is_modified
    rast,         \* per page, what rendering it gives (fixed once observed)
    ocr,          \* per page, what image_to_data gives (fixed once observed)
    pc,           \* make_searchable: "idle", "page", "ocr", "word", "returned", "raised"
    exc,          \* the exception that left make_searchable, or None
    page_num,     \* argument page_num: <<>> for None, <<k>> for the integer k
    callback,     \* argument callback: None, "ok", or "raises" (it raises when called)
    pages,        \* the page numbers the for loop has still to visit
    pnum,         \* the loop variable
    processed,    \* the local processed
    scale,        \* <<sx, sy>>
    data,         \* the rows image_to_data returned for the page
    widx,         \* the word loop's position in data, from 1
    result,       \* the tuple returned: <<>> before the return
    run,          \* calls made so far: 0, 1 or 2
    prev,         \* the first call's result and the modified flag after it
    modifiedBefore, \* is_modified when the call was made
    cbLog,        \* this call: the pages the callback was invoked for
    renderLog,    \* this call: the pages render_page was called for
    ocrLog,       \* this call: the pages image_to_data was called for
    measureLog,   \* this call: <<page, word index>> of every get_text_length call
    writeLog      \* this call: <<page, word index>> of every entry insert_text wrote

docVars == <<docOpen, pageText, is_modified>>
envVars == <<ocrLib, rast, ocr>>
argVars == <<page_num, callback>>
locVars == <<pages, pnum, processed, scale, data, widx>>
logVars == <<cbLog, renderLog, ocrLog, measureLog, writeLog>>

\* the application, PDFEditorPro, around the calls of make_searchable
VARIABLES
    heap,          \* the PDFDocument objects ever made: [open, pages, is_modified]
    documents,     \* self.documents: doc id -> index of its object in heap
    tabs,          \* self.tab_bar.tabs: the tab ids, in insertion order
    active_doc_id, \* self.active_doc_id: <<>> for None, <<id>> for "doc_<id>"
    workers,       \* the threads _ocr_document started, in order of their start
    afterQueue,    \* the calls scheduled with self.after(0, ...), oldest first
    dialogs        \* the workers whose progress dialog exists

appVars == <<heap, documents, tabs, active_doc_id, workers, afterQueue, dialogs>>

callVars == <<docVars, argVars, locVars, logVars, pc, exc, result, run, prev,
              modifiedBefore>>

vars == <<callVars, envVars, appVars>>

Unknown == [kind |-> "unknown"]
Raises == [kind |-> "raise"]
Image(size) == [kind |-> "img", size |-> size]
Rows(ws) == [kind |-> "rows", rows |-> ws]

\* PDFDocument.page_count
page_count == IF docOpen THEN Len(pageText) ELSE 0

\* PDFDocument.get_page(num) is not None
has_page(num) == docOpen /\ 0 <= num /\ num < Len(pageText)

\* range(n) as a sequence
Range(n) == [i \in 1..n |-> i - 1]

\* the rows the OCR adapter has returned so far over the document
RECURSIVE RowsUsed(_)
RowsUsed(o) ==
    IF o = <<>> THEN 0
    ELSE (IF Head(o).kind = "rows" THEN Len(Head(o).rows) ELSE 0) + RowsUsed(Tail(o))

\* the logs of a call, empty at its start
NoLogs ==
    /\ cbLog' = <<>>
    /\ renderLog' = <<>>
    /\ ocrLog' = <<>>
    /\ measureLog' = <<>>
    /\ writeLog' = <<>>

\* PDFEditorPro.__init__: no document, no tab, no worker
NoApp ==
    /\ heap = <<>>
    /\ documents = [id \in {} |-> 0]
    /\ tabs = <<>>
    /\ active_doc_id = <<>>
    /\ workers = <<>>
    /\ afterQueue = <<>>
    /\ dialogs = {}

Init ==
    /\ ocrLib \in BOOLEAN
    /\ docOpen \in BOOLEAN
    /\ \E n \in 0..MaxPages :
         /\ (~docOpen => n = 0)
         /\ pageText = [i \in 1..n |-> <<>>]
         /\ rast = [i \in 1..n |-> Unknown]
         /\ ocr = [i \in 1..n |-> Unknown]
    /\ is_modified \in BOOLEAN
    /\ pc = "idle"
    /\ exc = None
    /\ page_num = <<>>
    /\ callback = None
    /\ pages = <<>>
    /\ pnum = 0
    /\ processed = 0
    /\ scale = <<RInt(1), RInt(1)>>
    /\ data = <<>>
    /\ widx = 0
    /\ result = <<>>
    /\ run = 0
    /\ prev = <<>>
    /\ cbLog = <<>>
    /\ renderLog = <<>>
    /\ ocrLog = <<>>
    /\ measureLog = <<>>
    /\ writeLog = <<>>
    /\ modifiedBefore = is_modified
    /\ NoApp

\* --------------------------------------------------- the adapters, called
NoImage == [kind |-> "none"]

\* PDFDocument.render_page(page_num, zoom=2.0): None without the page, else
\* get_pixmap raises or gives the bitmap; the same page renders the same
render_page(p) ==
    IF ~has_page(p) THEN {NoImage}
    ELSE IF rast[p + 1].kind = "unknown"
         THEN {Raises} \cup {Image(sz) : sz \in BitmapSizes}
         ELSE {rast[p + 1]}

\* pytesseract.image_to_data(img, output_type=DICT): raises or gives rows; the
\* same bitmap gives the same rows
image_to_data(p) ==
    IF ocr[p + 1].kind = "unknown"
    THEN {Raises} \cup {Rows(ws) : ws \in SeqsUpTo(Words, MaxWords - RowsUsed(ocr))}
    ELSE {ocr[p + 1]}

\* ------------------------------------------------- make_searchable, pieces
\* the whole document taken whatever page_num says
PagesToVisitAll(pn) == Range(page_count)

\* the whole document taken from its last page to its first
PagesToVisitReversed(pn) ==
    IF pn # <<>> THEN pn ELSE [i \in 1..page_count |-> page_count - i]

\* pages = [page_num] if page_num is not None else range(doc.page_count)
PagesToVisit(pn) == IF pn # <<>> THEN pn ELSE Range(page_count)

\* a counter kept across calls instead of being reset
InitialProcessedCarried == processed

\* processed = 0
InitialProcessed == 0

\* the text taken as it comes, not stripped
WordTextRaw(w) == w.text

\* text = data['text'][i].strip()
WordText(w) == Strip(w.text)

\* str(data['conf'][i]).lstrip('-').isdigit()
ConfIsNumeric(w) == IsDigit(LStripMinus(w.conf))

\* int(data['conf'][i]) raises
ConfRaises(w) == ConfIsNumeric(w) /\ PyIntRaises(w.conf)

\* a non-numeric confidence taken for full confidence
ConfDefaultHigh(w) == IF ConfIsNumeric(w) THEN PyInt(w.conf) ELSE 100

\* a confidence outside 0..100 taken for zero
ConfClamped(w) ==
    IF ConfIsNumeric(w) /\ PyInt(w.conf) >= 0 /\ PyInt(w.conf) <= 100
    THEN PyInt(w.conf)
    ELSE 0

\* conf = int(data['conf'][i]) if ... else 0
Conf(w) == IF ConfIsNumeric(w) THEN PyInt(w.conf) ELSE 0

\* a word of a zero-sized box rejected too
RejectedZeroBox(w) ==
    \/ WordText(w) = <<>>
    \/ Conf(w) < MinConf
    \/ w.width = 0
    \/ w.height = 0

\* if not text or conf < 30: continue
Rejected(w) == WordText(w) = <<>> \/ Conf(w) < MinConf

\* max(4, min(72, fs))
Clamp(fs) == PyMax(RInt(MinFont), PyMin(RInt(MaxFont), fs))

\* the box divided by the scale factors
PageBoxInverse(w, sc) ==
    [x |-> RDiv(RInt(w.left), sc[1]), y |-> RDiv(RInt(w.top), sc[2]),
     w |-> RDiv(RInt(w.width), sc[1]), h |-> RDiv(RInt(w.height), sc[2])]

\* the left edge moved by one point after the multiplication
PageBoxShifted(w, sc) ==
    [x |-> RAdd(RMul(RInt(w.left), sc[1]), RInt(1)), y |-> RMul(RInt(w.top), sc[2]),
     w |-> RMul(RInt(w.width), sc[1]), h |-> RMul(RInt(w.height), sc[2])]

\* px, py = x * sx, y * sy; pw_t, ph_t = w * sx, h * sy
PageBox(w, sc) ==
    [x |-> RMul(RInt(w.left), sc[1]), y |-> RMul(RInt(w.top), sc[2]),
     w |-> RMul(RInt(w.width), sc[1]), h |-> RMul(RInt(w.height), sc[2])]

\* fs = ph_t * 0.85; fs = max(4, min(72, fs))
InitialFontSize(box) == Clamp(RMul(box.h, CapRatio))

\* the width correction without its clamp
CorrectedFontSizeNoClamp(fs, box, tl) ==
    IF RLt(RInt(0), tl) /\ RLt(RInt(0), box.w)
    THEN RMul(fs, RDiv(box.w, tl))
    ELSE fs

\* if tl > 0 and pw_t > 0: fs = max(4, min(72, fs * (pw_t / tl)))
CorrectedFontSize(fs, box, tl) ==
    IF RLt(RInt(0), tl) /\ RLt(RInt(0), box.w)
    THEN Clamp(RMul(fs, RDiv(box.w, tl)))
    ELSE fs

\* the entry anchored at the top of the box instead of near its baseline
EntryAnchorAtTop(w, sc) ==
    LET box == PageBox(w, sc)
        fs0 == InitialFontSize(box)
    IN  [x |-> box.x, y |-> box.y,
         text |-> WordText(w),
         fontsize |-> CorrectedFontSize(fs0, box, get_text_length(WordText(w), fs0)),
         fontname |-> "helv", render_mode |-> RenderMode]

\* the entry written as filled text (render mode 0)
EntryVisible(w, sc) ==
    LET box == PageBox(w, sc)
        fs0 == InitialFontSize(box)
    IN  [x |-> box.x, y |-> RAdd(box.y, RMul(box.h, CapRatio)),
         text |-> WordText(w),
         fontsize |-> CorrectedFontSize(fs0, box, get_text_length(WordText(w), fs0)),
         fontname |-> "helv", render_mode |-> 0]

\* the arguments of page.insert_text for the word
Entry(w, sc) ==
    LET box == PageBox(w, sc)
        fs0 == InitialFontSize(box)
    IN  [x |-> box.x, y |-> RAdd(box.y, RMul(box.h, CapRatio)),
         text |-> WordText(w),
         fontsize |-> CorrectedFontSize(fs0, box, get_text_length(WordText(w), fs0)),
         fontname |-> "helv", render_mode |-> RenderMode]

\* a failed measurement passed over and the entry written all the same
TextAfterWordMeasureIgnored(text, w, sc) ==
    IF insert_text_raises(WordText(w)) THEN text ELSE Append(text, Entry(w, sc))

\* one failure in the try block ends the writing for the rest of the page
TextAfterWordAbortsPage(text, w, sc) ==
    IF \/ get_text_length_raises(WordText(w))
       \/ insert_text_raises(WordText(w))
       \/ \E k \in 1..Len(measureLog) :
            measureLog[k][1] = pnum /\ ~(\E j \in 1..Len(writeLog) : writeLog[j] = measureLog[k])
    THEN text
    ELSE Append(text, Entry(w, sc))

\* the entry of a word written twice
TextAfterWordTwice(text, w, sc) ==
    IF get_text_length_raises(WordText(w)) \/ insert_text_raises(WordText(w))
    THEN text
    ELSE Append(Append(text, Entry(w, sc)), Entry(w, sc))

\* the try block for one word: the page's text after it
TextAfterWord(text, w, sc) ==
    IF get_text_length_raises(WordText(w)) \/ insert_text_raises(WordText(w))
    THEN text
    ELSE Append(text, Entry(w, sc))

\* a rejected word ends the word loop (break for continue)
NextWordBreak(i, w) == IF Rejected(w) THEN Len(data) + 1 ELSE i + 1

\* the word loop's next position, after continue or the end of the body
NextWord(i, w) == i + 1

\* a page counted only when one of its words was accepted
CountPageIfAccepted(n) ==
    IF \E k \in 1..Len(measureLog) : measureLog[k][1] = pnum THEN n + 1 ELSE n

\* processed += 1
CountPage(n) == n + 1

\* the flag set whatever the count
ModifiedAfterAlways(n, m) == TRUE

\* if processed > 0: doc.is_modified = True
ModifiedAfter(n, m) == IF n > 0 THEN TRUE ELSE m

\* success reported whatever the count
ReturnValueAlwaysTrue(n) == <<TRUE, n>>

\* success tested with >= in place of >
ReturnValueGe(n) == <<n >= 0, n>>

\* return processed > 0, processed
ReturnValue(n) == <<n > 0, n>>

Raise(e) == pc' = "raised" /\ exc' = e

\* the import taken to succeed whatever is installed
ImportNeverFails == FALSE

\* try: import pytesseract ... except ImportError
ImportFails == ~ocrLib

\* ------------------------------------------------- make_searchable, steps
\* the call, up to the head of the page loop
Enter(pn, cb) ==
    /\ pc = "idle"
    /\ run' = run + 1
    /\ page_num' = pn
    /\ callback' = cb
    /\ NoLogs
    /\ exc' = None
    /\ modifiedBefore' = is_modified
    /\ UNCHANGED <<docVars, envVars, pnum, scale, data, widx, prev, appVars>>
    /\ IF ImportFails
       THEN /\ result' = <<FALSE, 0>>
            /\ pc' = "returned"
            /\ UNCHANGED <<pages, processed>>
       ELSE /\ pages' = PagesToVisit(pn)
            /\ processed' = InitialProcessed
            /\ result' = <<>>
            /\ pc' = "page"

\* one iteration of the page loop, up to the scale factors
BeginPage ==
    /\ pc = "page"
    /\ pages # <<>>
    /\ pnum' = Head(pages)
    /\ pages' = Tail(pages)
    /\ UNCHANGED <<docVars, ocrLib, ocr, argVars, processed, data, widx, result, run,
                   prev, modifiedBefore, ocrLog, measureLog, writeLog, appVars>>
    /\ IF ~has_page(Head(pages))
       THEN UNCHANGED <<rast, scale, pc, exc, cbLog, renderLog>>
       ELSE /\ cbLog' = IF callback # None THEN Append(cbLog, Head(pages)) ELSE cbLog
            /\ IF callback = "raises"
               THEN Raise("callback") /\ UNCHANGED <<rast, scale, renderLog>>
               ELSE /\ renderLog' = Append(renderLog, Head(pages))
                    /\ \E img \in render_page(Head(pages)) :
                         /\ rast' = [rast EXCEPT ![Head(pages) + 1] = img]
                         /\ CASE img.kind = "raise" ->
                                   Raise("render") /\ UNCHANGED scale
                              [] img.kind = "none" ->
                                   UNCHANGED <<scale, pc, exc>>
                              [] img.kind = "img" ->
                                   IF img.size[1] = 0 \/ img.size[2] = 0
                                   THEN Raise("ZeroDivisionError") /\ UNCHANGED scale
                                   ELSE /\ scale' = <<Rat(PageRect[1], img.size[1]),
                                                      Rat(PageRect[2], img.size[2])>>
                                        /\ pc' = "ocr"
                                        /\ UNCHANGED exc

\* data = pytesseract.image_to_data(img, ...)
Recognize ==
    /\ pc = "ocr"
    /\ ocrLog' = Append(ocrLog, pnum)
    /\ UNCHANGED <<docVars, ocrLib, rast, argVars, pages, pnum, processed, scale, result,
                   run, prev, modifiedBefore, cbLog, renderLog, measureLog, writeLog,
                   appVars>>
    /\ \E got \in image_to_data(pnum) :
         /\ ocr' = [ocr EXCEPT ![pnum + 1] = got]
         /\ IF got.kind = "raise"
            THEN Raise("ocr") /\ UNCHANGED <<data, widx>>
            ELSE /\ data' = got.rows
                 /\ widx' = 1
                 /\ pc' = "word"
                 /\ UNCHANGED exc

\* one iteration of the word loop
FitWord ==
    /\ pc = "word"
    /\ widx <= Len(data)
    /\ UNCHANGED <<docOpen, is_modified, envVars, argVars, pages, pnum, processed, scale,
                   data, result, run, prev, modifiedBefore, cbLog, renderLog, ocrLog,
                   appVars>>
    /\ LET w == data[widx] IN
       IF ConfRaises(w)
       THEN Raise("ValueError") /\ UNCHANGED <<pageText, widx, measureLog, writeLog>>
       ELSE /\ widx' = NextWord(widx, w)
            /\ UNCHANGED <<pc, exc>>
            /\ IF Rejected(w)
               THEN UNCHANGED <<pageText, measureLog, writeLog>>
               ELSE /\ measureLog' = Append(measureLog, <<pnum, widx>>)
                    /\ pageText' = [pageText EXCEPT
                                      ![pnum + 1] = TextAfterWord(@, w, scale)]
                    /\ writeLog' = IF pageText' # pageText
                                   THEN Append(writeLog, <<pnum, widx>>)
                                   ELSE writeLog

\* processed += 1
EndPage ==
    /\ pc = "word"
    /\ widx > Len(data)
    /\ processed' = CountPage(processed)
    /\ pc' = "page"
    /\ UNCHANGED <<docVars, envVars, argVars, pages, pnum, scale, data, widx, logVars,
                   exc, result, run, prev, modifiedBefore, appVars>>

\* after the loop
Return ==
    /\ pc = "page"
    /\ pages = <<>>
    /\ is_modified' = ModifiedAfter(processed, is_modified)
    /\ result' = ReturnValue(processed)
    /\ pc' = "returned"
    /\ UNCHANGED <<docOpen, pageText, envVars, argVars, locVars, logVars, exc, run, prev,
                   modifiedBefore, appVars>>

\* the same call once more, on the document as the first call left it
CallAgain ==
    /\ pc \in {"returned", "raised"}
    /\ run = 1
    /\ prev' = <<result, is_modified>>
    /\ pc' = "idle"
    /\ UNCHANGED <<docVars, envVars, argVars, locVars, logVars, exc, result, run,
                   modifiedBefore, appVars>>

PageNums == {<<>>} \cup {<<k>> : k \in (0 - 1)..MaxPages}
Callbacks == {None, "ok", "raises"}

\* one call of make_searchable
Next ==
    \/ \E pn \in PageNums, cb \in Callbacks : run = 0 /\ Enter(pn, cb)
    \/ BeginPage
    \/ Recognize
    \/ FitWord
    \/ EndPage
    \/ Return

Spec == Init /\ [][Next]_vars

\* two calls in a row with the same arguments
NextTwice ==
    \/ \E pn \in PageNums, cb \in Callbacks :
         /\ run = 0 \/ (pn = page_num /\ cb = callback)
         /\ Enter(pn, cb)
    \/ BeginPage
    \/ Recognize
    \/ FitWord
    \/ EndPage
    \/ Return
    \/ CallAgain

SpecTwice == Init /\ [][NextTwice]_vars

\* the library is there, the document is open and not yet modified
InitWords == Init /\ ocrLib /\ docOpen /\ ~is_modified

\* one call over the whole document, without a progress callback
NextWords ==
    \/ run = 0 /\ Enter(<<>>, None)
    \/ BeginPage
    \/ Recognize
    \/ FitWord
    \/ EndPage
    \/ Return

\* make_searchable(doc): what becomes of the words of each page
SpecWords == InitWords /\ [][NextWords]_vars

\* ------------------------------------------- the mapping on chosen boxes
\* img.size of the rendered page: bitmaps of positive width and height
MapSizes == {<<1024, 1024>>, <<512, 768>>, <<300, 1024>>}

\* a row of image_to_data with the pixel box (l, t, w, h)
BoxWord(l, t, w, h) == Word(Hi, <<"9", "0">>, l, t, w, h)

\* the row w with the four components of its box multiplied by k
ScaledWord(w, k) ==
    Word(w.text, w.conf, k * w.left, k * w.top, k * w.width, k * w.height)

\* a document of one page whose bitmap has a size of MapSizes and whose OCR
\* rows are a box and the same box scaled by a factor
InitMap ==
    /\ ocrLib = TRUE
    /\ docOpen = TRUE
    /\ pageText = <<<<>>>>
    /\ \E sz \in MapSizes : rast = <<Image(sz)>>
    /\ \E l \in 0..MaxCoord, t \in 0..MaxCoord, w \in 0..MaxCoord, h \in 0..MaxCoord,
          k \in 0..MaxFactor :
         ocr = <<Rows(<<BoxWord(l, t, w, h), ScaledWord(BoxWord(l, t, w, h), k)>>)>>
    /\ is_modified = FALSE
    /\ pc = "idle"
    /\ exc = None
    /\ page_num = <<>>
    /\ callback = None
    /\ pages = <<>>
    /\ pnum = 0
    /\ processed = 0
    /\ scale = <<RInt(1), RInt(1)>>
    /\ data = <<>>
    /\ widx = 0
    /\ result = <<>>
    /\ run = 0
    /\ prev = <<>>
    /\ cbLog = <<>>
    /\ renderLog = <<>>
    /\ ocrLog = <<>>
    /\ measureLog = <<>>
    /\ writeLog = <<>>
    /\ modifiedBefore = FALSE
    /\ NoApp

\* one call of make_searchable on such a document
SpecMap == InitMap /\ [][Next]_vars

\* ------------------------------------------------ the application's pieces
\* a dict with one more entry (d[k] = v), and with one entry less (del d[k])
Put(d, k, v) == [x \in DOMAIN d \cup {k} |-> IF x = k THEN v ELSE d[x]]
Del(d, k) == [x \in DOMAIN d \ {k} |-> d[x]]

\* PDFDocument objects, by the number of their pages
NewDocument == [open |-> TRUE, pages |-> 1, is_modified |-> TRUE]
OpenedDocument(n) == [open |-> TRUE, pages |-> n, is_modified |-> FALSE]
ClosedDocument == [open |-> FALSE, pages |-> 0, is_modified |-> FALSE]

\* doc_id = f"doc_{len(self.documents)}"
doc_id == Cardinality(DOMAIN documents)

\* self.doc: the object of the active document, 0 for None
doc == IF active_doc_id # <<>> /\ active_doc_id[1] \in DOMAIN documents
       THEN documents[active_doc_id[1]] ELSE 0

\* self.tabs[tab_id] = tab: a new key goes last, a known key keeps its place
add_tab(t, id) == IF \E i \in 1..Len(t) : t[i] = id THEN t ELSE Append(t, id)

\* del self.tabs[tab_id]
remove_tab(t, id) == SelectSeq(t, LAMBDA x : x # id)

\* self.active_doc_id after _switch_to_doc(id), given the documents map
SwitchedTo(docs, id, active) == IF id \in DOMAIN docs THEN <<id>> ELSE active

\* a worker thread: where it is, the document it was given, range(page_count),
\* and make_searchable's counter
StartedWorker == [pc |-> "start", doc |-> 0, pnum |-> 0, stop |-> 0, processed |-> 0]

\* the worker is inside make_searchable
InFlight(w) == workers[w].pc = "pages"

\* ------------------------------------------------ the application's steps
\* the document a new or opened file becomes: entry, tab, switch
Register(d) ==
    /\ heap' = Append(heap, d)
    /\ documents' = Put(documents, doc_id, Len(heap) + 1)
    /\ tabs' = add_tab(tabs, doc_id)
    /\ active_doc_id' = SwitchedTo(documents', doc_id, active_doc_id)
    /\ UNCHANGED <<workers, afterQueue, dialogs, callVars, envVars>>

_new_doc ==
    /\ Len(heap) < MaxDocs
    /\ Register(NewDocument)

\* a file is chosen and opens; a cancelled dialog or a failed open changes nothing
_open_doc ==
    /\ Len(heap) < MaxDocs
    /\ \E n \in 1..MaxPages : Register(OpenedDocument(n))

\* self.doc.save() succeeds; a failed or cancelled save changes nothing
_save_doc ==
    /\ doc # 0
    /\ heap[doc].is_modified
    /\ heap' = [heap EXCEPT ![doc].is_modified = FALSE]
    /\ UNCHANGED <<documents, tabs, active_doc_id, workers, afterQueue, dialogs,
                   callVars, envVars>>

\* _close_tab with self.active_doc_id = id; r is the answer to "Save?"
CloseTab(id, r) ==
    LET d == IF id \in DOMAIN documents THEN documents[id] ELSE 0
        asked == d # 0 /\ heap[d].is_modified
    IN  /\ (~asked => r = "no")
        /\ IF asked /\ r = "cancel"
           THEN /\ active_doc_id' = <<id>>
                /\ UNCHANGED <<heap, documents, tabs>>
           ELSE /\ tabs' = remove_tab(tabs, id)
                /\ heap' = IF d # 0 THEN [heap EXCEPT ![d] = ClosedDocument] ELSE heap
                /\ documents' = IF d # 0 THEN Del(documents, id) ELSE documents
                /\ active_doc_id' = IF tabs' # <<>>
                                    THEN SwitchedTo(documents', tabs'[1], <<id>>)
                                    ELSE <<>>
        /\ UNCHANGED <<workers, afterQueue, dialogs, callVars, envVars>>

Answers == {"cancel", "yes", "no"}

_close_tab ==
    /\ active_doc_id # <<>>
    /\ \E r \in Answers : CloseTab(active_doc_id[1], r)

_on_tab_select ==
    \E i \in 1..Len(tabs) : LET id == tabs[i] IN
        /\ active_doc_id # <<id>>
        /\ active_doc_id' = SwitchedTo(documents, id, active_doc_id)
        /\ UNCHANGED <<heap, documents, tabs, workers, afterQueue, dialogs,
                       callVars, envVars>>

_on_tab_close ==
    \E i \in 1..Len(tabs), r \in Answers : LET id == tabs[i] IN
        /\ active_doc_id # <<id>>
        /\ CloseTab(id, r)

\* the page exists and the user confirms
_insert_page ==
    /\ doc # 0
    /\ heap[doc].open
    /\ heap[doc].pages < MaxPages
    /\ heap' = [heap EXCEPT ![doc].pages = @ + 1, ![doc].is_modified = TRUE]
    /\ UNCHANGED <<documents, tabs, active_doc_id, workers, afterQueue, dialogs,
                   callVars, envVars>>

_delete_page ==
    /\ doc # 0
    /\ heap[doc].pages > 1
    /\ heap' = [heap EXCEPT ![doc].pages = @ - 1, ![doc].is_modified = TRUE]
    /\ UNCHANGED <<documents, tabs, active_doc_id, workers, afterQueue, dialogs,
                   callVars, envVars>>

\* is_available() and the user's yes: a progress dialog and a started thread
_ocr_document ==
    /\ doc # 0
    /\ ocrLib
    /\ Len(workers) < MaxWorkers
    /\ workers' = Append(workers, StartedWorker)
    /\ dialogs' = dialogs \cup {Len(workers) + 1}
    /\ UNCHANGED <<heap, documents, tabs, active_doc_id, afterQueue, callVars, envVars>>

\* run(): self.doc is read in the thread; make_searchable(None) raises at
\* doc.page_count, and the thread ends without scheduling _ocr_done
WorkerCall(w) ==
    /\ workers[w].pc = "start"
    /\ workers' = [workers EXCEPT ![w] =
            IF doc = 0 THEN [@ EXCEPT !.pc = "died"]
            ELSE [@ EXCEPT !.pc = "pages", !.doc = doc, !.stop = heap[doc].pages]]
    /\ UNCHANGED <<heap, documents, tabs, active_doc_id, afterQueue, dialogs,
                   callVars, envVars>>

\* one turn of the page loop: a page that is gone is passed over, a page that
\* is there is counted, unless an adapter raises
WorkerPage(w) ==
    /\ workers[w].pc = "pages"
    /\ workers[w].pnum < workers[w].stop
    /\ \E raises \in BOOLEAN :
         workers' = [workers EXCEPT ![w] =
            IF workers[w].pnum >= heap[workers[w].doc].pages
            THEN [@ EXCEPT !.pnum = @ + 1]
            ELSE IF raises THEN [@ EXCEPT !.pc = "died"]
            ELSE [@ EXCEPT !.pnum = @ + 1, !.processed = @ + 1]]
    /\ UNCHANGED <<heap, documents, tabs, active_doc_id, afterQueue, dialogs,
                   callVars, envVars>>

\* make_searchable returns, and run() schedules _ocr_done
WorkerReturn(w) ==
    /\ workers[w].pc = "pages"
    /\ workers[w].pnum = workers[w].stop
    /\ heap' = IF workers[w].processed > 0
               THEN [heap EXCEPT ![workers[w].doc].is_modified = TRUE] ELSE heap
    /\ workers' = [workers EXCEPT ![w].pc = "posted"]
    /\ afterQueue' = Append(afterQueue, w)
    /\ UNCHANGED <<documents, tabs, active_doc_id, dialogs, callVars, envVars>>

\* the oldest scheduled call runs: dialog.destroy() and a message box
_ocr_done ==
    /\ afterQueue # <<>>
    /\ dialogs' = dialogs \ {Head(afterQueue)}
    /\ workers' = [workers EXCEPT ![Head(afterQueue)].pc = "done"]
    /\ afterQueue' = Tail(afterQueue)
    /\ UNCHANGED <<heap, documents, tabs, active_doc_id, callVars, envVars>>

InitApp ==
    /\ ocrLib \in BOOLEAN
    /\ docOpen = FALSE
    /\ pageText = <<>>
    /\ rast = <<>>
    /\ ocr = <<>>
    /\ is_modified = FALSE
    /\ pc = "idle"
    /\ exc = None
    /\ page_num = <<>>
    /\ callback = None
    /\ pages = <<>>
    /\ pnum = 0
    /\ processed = 0
    /\ scale = <<RInt(1), RInt(1)>>
    /\ data = <<>>
    /\ widx = 0
    /\ result = <<>>
    /\ run = 0
    /\ prev = <<>>
    /\ cbLog = <<>>
    /\ renderLog = <<>>
    /\ ocrLog = <<>>
    /\ measureLog = <<>>
    /\ writeLog = <<>>
    /\ modifiedBefore = FALSE
    /\ NoApp

NextApp ==
    \/ _new_doc
    \/ _open_doc
    \/ _save_doc
    \/ _close_tab
    \/ _on_tab_select
    \/ _on_tab_close
    \/ _insert_page
    \/ _delete_page
    \/ _ocr_document
    \/ \E w \in 1..Len(workers) : WorkerCall(w)
    \/ \E w \in 1..Len(workers) : WorkerPage(w)
    \/ \E w \in 1..Len(workers) : WorkerReturn(w)
    \/ _ocr_done

\* the application: documents, tabs and OCR workers
SpecApp == InitApp /\ [][NextApp]_vars

\* ================================================================ claims
InSeq(x, s) == \E k \in 1..Len(s) : s[k] = x

\* the pages whose OCR rows are known, and the rows of page p
OcrPages == {p \in 0..(Len(ocr) - 1) : ocr[p + 1].kind = "rows"}
RowsOf(p) == ocr[p + 1].rows

\* the confidence as the data model reads it: an integer, or 0 when the
\* value is no integer
IsInteger(c) == ~PyIntRaises(c)
Confidence(w) == IF IsInteger(w.conf) THEN PyInt(w.conf) ELSE 0
LowConfidence(w) == Confidence(w) < 30

\* C1: if rasterization of page i raises, page i is skipped, every later page
\* is still processed and the call returns a result.
C1_RasterErrorSkipsPage ==
    \A k \in 1..Len(renderLog) :
        rast[renderLog[k] + 1].kind = "raise" =>
            /\ pc # "raised"
            /\ pc = "returned" =>
                 /\ result[1] <=> (result[2] > 0)
                 /\ page_num = <<>> =>
                      \A q \in (renderLog[k] + 1)..(page_count - 1) : InSeq(q, renderLog)

\* C2: if the OCR adapter raises for page i, only that page is skipped: the
\* error does not leave make_searchable and the remaining pages are processed.
C2_OcrErrorSkipsPage ==
    \A k \in 1..Len(ocrLog) :
        ocr[ocrLog[k] + 1].kind = "raise" =>
            /\ pc # "raised"
            /\ (pc = "returned" /\ page_num = <<>>) =>
                 \A q \in (ocrLog[k] + 1)..(page_count - 1) : InSeq(q, renderLog)

\* C3: every result returned, on every return path, has
\* succeeded = (pagesProcessed > 0).
C3_SucceededIffProcessed ==
    pc = "returned" => (result[1] <=> (result[2] > 0))

C3_Witness == pc = "returned" /\ result = <<TRUE, 2>>

\* C4 as claimed: if no page yields an accepted word, the call reports
\* succeeded = false.
C4_NoAcceptedWordFails ==
    (pc = "returned" /\ measureLog = <<>>) => result[1] = FALSE

\* C4 as amended: the call reports succeeded = false exactly when no page
\* was rasterized and recognized; a recognized page counts even when every
\* one of its words is rejected or it has no words.
C4_FailsIffNoPageRecognized ==
    pc = "returned" => (result[1] = FALSE <=> ocrLog = <<>>)

C4_Witness ==
    /\ pc = "returned"
    /\ result[1] = TRUE
    /\ measureLog = <<>>
    /\ \E p \in OcrPages : RowsOf(p) # <<>>

\* C5: a word of confidence below 30 (a non-numeric confidence and -1
\* included) is rejected whatever its box: no width is measured for it and
\* no entry is written for it.
C5_LowConfidenceRejected ==
    \A p \in OcrPages : \A i \in 1..Len(RowsOf(p)) :
        LowConfidence(RowsOf(p)[i]) =>
            ~InSeq(<<p, i>>, measureLog) /\ ~InSeq(<<p, i>>, writeLog)

C5_Witness ==
    /\ pc = "word"
    /\ widx > 2
    /\ \A i \in 1..2 :
         /\ LowConfidence(data[i])
         /\ Strip(data[i].text) # <<>>
         /\ data[i].width > 0 /\ data[i].height > 0
    /\ ~IsInteger(data[1].conf)
    /\ Confidence(data[2]) = 0 - 1
    /\ pageText[pnum + 1] = <<>>

\* C6 as claimed: a confidence outside 0..100 is treated as zero, so the
\* word is rejected.
C6_OutOfRangeRejected ==
    \A p \in OcrPages : \A i \in 1..Len(RowsOf(p)) :
        LET w == RowsOf(p)[i] IN
        (IsInteger(w.conf) /\ (Confidence(w) < 0 \/ Confidence(w) > 100)) =>
            ~InSeq(<<p, i>>, measureLog) /\ ~InSeq(<<p, i>>, writeLog)

\* C6 as amended: an integer confidence below 0 is rejected, but one above
\* 100 is compared with 30 as it stands: the word is accepted when its text
\* is not blank.
C6_AboveRangeAccepted ==
    /\ \A p \in OcrPages : \A i \in 1..Len(RowsOf(p)) :
         (IsInteger(RowsOf(p)[i].conf) /\ Confidence(RowsOf(p)[i]) < 0) =>
             ~InSeq(<<p, i>>, measureLog) /\ ~InSeq(<<p, i>>, writeLog)
    /\ pc = "word" =>
         \A i \in 1..(widx - 1) :
             (/\ IsInteger(data[i].conf)
              /\ Confidence(data[i]) > 100
              /\ Strip(data[i].text) # <<>>) => InSeq(<<pnum, i>>, measureLog)

C6_Witness ==
    /\ pc = "word"
    /\ widx > 2
    /\ Confidence(data[1]) > 100
    /\ InSeq(<<pnum, 1>>, writeLog)
    /\ Confidence(data[2]) < 0
    /\ Len(pageText[pnum + 1]) = 1

\* C7: every text entry written to a page has a font size fs with
\* 4 <= fs <= 72, with or without the width correction.
C7_FontSizeClamped ==
    \A p \in 1..Len(pageText) : \A k \in 1..Len(pageText[p]) :
        /\ RLe(<<4, 1>>, pageText[p][k].fontsize)
        /\ RLe(pageText[p][k].fontsize, <<72, 1>>)

C7_Witness ==
    /\ pc = "word"
    /\ widx > 2
    /\ data[1].width > 0 /\ data[1].height > 0
    /\ data[2].width = 0
    /\ Len(pageText[pnum + 1]) = 2
    /\ pageText[pnum + 1][1].fontsize = <<20, 1>>
    /\ pageText[pnum + 1][2].fontsize = <<72, 1>>

\* C8: the call marks the document modified if and only if the pass
\* succeeded; a pass of zero pages leaves is_modified as it was.
C8_ModifiedIffSucceeded ==
    pc = "returned" =>
        is_modified = (IF result[1] THEN TRUE ELSE modifiedBefore)

C8_Witness ==
    /\ pc = "returned"
    /\ result[1] = TRUE
    /\ modifiedBefore = FALSE
    /\ is_modified = TRUE

\* C9: for a document of zero pages the call returns pagesProcessed = 0 and
\* succeeded = false and invokes neither the callback, nor the rasterizer,
\* nor the OCR adapter.
C9_EmptyDocument ==
    page_count = 0 =>
        /\ pc # "raised"
        /\ cbLog = <<>> /\ renderLog = <<>> /\ ocrLog = <<>>
        /\ pc = "returned" => result = <<FALSE, 0>>

C9_Witness ==
    /\ page_count = 0
    /\ ocrLib
    /\ callback = "ok"
    /\ page_num = <<>>
    /\ pc = "returned"

\* C10: two calls in a row on the same document, with deterministic
\* adapters, return the same count and the same success flag, and the
\* modified flag after the second equals the flag after the first, though
\* the second call adds further entries.
C10_TwiceSameResult ==
    (run = 2 /\ prev # <<>> /\ prev[1] # <<>>) =>
        /\ pc # "raised"
        /\ pc = "returned" => (result = prev[1] /\ is_modified = prev[2])

C10_Witness ==
    /\ run = 2
    /\ pc = "returned"
    /\ result = <<TRUE, 2>>
    /\ prev = <<<<TRUE, 2>>, TRUE>>
    /\ Len(writeLog) = 1
    /\ \E p \in 1..Len(pageText) :
         Len(pageText[p]) = 2 /\ pageText[p][1] = pageText[p][2]

\* ------------------------------------------------------------ C11, C12
\* the document of worker w has the same pages, and is as open, after the step
SamePages(w) ==
    /\ heap'[workers[w].doc].pages = heap[workers[w].doc].pages
    /\ heap'[workers[w].doc].open = heap[workers[w].doc].open

\* C11: at most one OCR pass is in flight on a document at any time: no two
\* workers are inside make_searchable on the same document
C11_OnePassPerDocument ==
    \A v, w \in 1..Len(workers) :
        (v # w /\ InFlight(v) /\ InFlight(w)) => workers[v].doc # workers[w].doc

\* C12: while a pass is running on a document, no step changes the number of
\* the document's pages or closes it (the worker itself never does either)
C12_OnlyWorkerMutates ==
    [][\A w \in 1..Len(workers) : InFlight(w) => SamePages(w)]_vars

\* ---------------------------------------------------------- C13 .. C20
\* a text of blanks only
IsBlank(t) == \A k \in 1..Len(t) : t[k] = " "
\* a word the filter lets through: text not blank, integer confidence >= 30
GoodWord(w) == ~IsBlank(w.text) /\ IsInteger(w.conf) /\ PyInt(w.conf) >= 30
MeasureFails(w) == Has(w.text, "#")
WriteFails(w) == Has(w.text, "@")
ZeroBox(w) == w.width = 0 \/ w.height = 0

\* page p's word loop has ended in this call
PageDone(p) == InSeq(p, ocrLog) /\ (pc \in {"page", "returned"} \/ p # pnum)
\* the words of page p the word loop has passed in this call
WordsSeen(p) ==
    IF ~InSeq(p, ocrLog) THEN 0
    ELSE IF p = pnum THEN widx - 1
    ELSE Len(RowsOf(p))
\* the pages whose word loop has ended
CountedPages == {p \in OcrPages : PageDone(p)}

\* C13: once started, the pass runs to completion and ends by returning a
\* result; it never ends by propagating an exception.
C13_NeverRaises == pc # "raised" /\ exc = None

\* C14: if the width measurement fails for a word, only that word is
\* rejected: no entry is written for it, every later word of the page is
\* still fitted and written, and the page is counted.
C14_MeasureFailureRejectsWord ==
    \A p \in OcrPages : \A i \in 1..WordsSeen(p) :
        (GoodWord(RowsOf(p)[i]) /\ MeasureFails(RowsOf(p)[i])) =>
            /\ InSeq(<<p, i>>, measureLog)
            /\ ~InSeq(<<p, i>>, writeLog)
            /\ \A j \in (i + 1)..WordsSeen(p) :
                 (/\ GoodWord(RowsOf(p)[j])
                  /\ ~MeasureFails(RowsOf(p)[j])
                  /\ ~WriteFails(RowsOf(p)[j])) => InSeq(<<p, j>>, writeLog)
            /\ PageDone(p) => (processed = Cardinality(CountedPages) /\ processed > 0)

C14_Witness ==
    /\ pc = "page"
    /\ processed = 1
    /\ pnum \in OcrPages
    /\ Len(RowsOf(pnum)) = 2
    /\ GoodWord(RowsOf(pnum)[1]) /\ MeasureFails(RowsOf(pnum)[1])
    /\ writeLog = <<<<pnum, 2>>>>
    /\ Len(pageText[pnum + 1]) = 1

\* C15: if writing one entry fails, the failure is absorbed for that entry
\* alone: the entries of all later accepted words of the page are written.
C15_WriteFailureAbsorbed ==
    \A p \in OcrPages : \A i \in 1..WordsSeen(p) :
        (/\ GoodWord(RowsOf(p)[i])
         /\ ~MeasureFails(RowsOf(p)[i])
         /\ WriteFails(RowsOf(p)[i])) =>
            /\ ~InSeq(<<p, i>>, writeLog)
            /\ \A j \in (i + 1)..WordsSeen(p) :
                 (/\ GoodWord(RowsOf(p)[j])
                  /\ ~MeasureFails(RowsOf(p)[j])
                  /\ ~WriteFails(RowsOf(p)[j])) => InSeq(<<p, j>>, writeLog)

C15_Witness ==
    /\ pc = "word"
    /\ widx = 3
    /\ GoodWord(data[1]) /\ WriteFails(data[1])
    /\ measureLog = <<<<pnum, 1>>, <<pnum, 2>>>>
    /\ writeLog = <<<<pnum, 2>>>>

\* C16: a rendered bitmap of pixel width 0 or pixel height 0 makes the call
\* skip the page and go on with the next one.
C16_ZeroBitmapSkipsPage ==
    \A k \in 1..Len(renderLog) :
        LET img == rast[renderLog[k] + 1] IN
        (img.kind = "img" /\ (img.size[1] = 0 \/ img.size[2] = 0)) =>
            /\ exc # "ZeroDivisionError"
            /\ (pc = "returned" /\ page_num = <<>>) =>
                 \A q \in (renderLog[k] + 1)..(page_count - 1) : InSeq(q, renderLog)

\* C17 as claimed: a word whose box is zero-sized (width 0 or height 0) is
\* skipped: no entry is written for it.
C17_ZeroBoxSkipped ==
    \A p \in OcrPages : \A i \in 1..Len(RowsOf(p)) :
        ZeroBox(RowsOf(p)[i]) => ~InSeq(<<p, i>>, writeLog)

\* C17 as amended: a zero-sized box does not make the word skipped: when
\* its text is not blank and its confidence is at least 30, and the
\* measurement and the write succeed, its entry is written.
C17_ZeroBoxWritten ==
    \A p \in OcrPages : \A i \in 1..WordsSeen(p) :
        (/\ ZeroBox(RowsOf(p)[i])
         /\ GoodWord(RowsOf(p)[i])
         /\ ~MeasureFails(RowsOf(p)[i])
         /\ ~WriteFails(RowsOf(p)[i])) => InSeq(<<p, i>>, writeLog)

C17_Witness ==
    /\ pc = "word"
    /\ widx = 3
    /\ data[1].height = 0
    /\ data[2].width = 0
    /\ writeLog = <<<<pnum, 1>>, <<pnum, 2>>>>
    /\ Len(pageText[pnum + 1]) = 2

\* C18: a word whose text is empty after trimming is rejected whatever its
\* confidence: no width is measured and no entry is written for it.
C18_BlankTextRejected ==
    \A p \in OcrPages : \A i \in 1..Len(RowsOf(p)) :
        IsBlank(RowsOf(p)[i].text) =>
            ~InSeq(<<p, i>>, measureLog) /\ ~InSeq(<<p, i>>, writeLog)

C18_Witness ==
    /\ pc = "word"
    /\ widx = 2
    /\ IsBlank(data[1].text)
    /\ data[1].text # <<>>
    /\ Confidence(data[1]) = 100
    /\ measureLog = <<>>
    /\ pageText[pnum + 1] = <<>>

\* C19: a page with a rejected word and an accepted word is counted, the
\* accepted word's entry is written and there is no entry for the rejected
\* word: a rejection ends neither the page nor the pass.
C19_RejectionKeepsPage ==
    \A p \in OcrPages :
        (\E r \in 1..WordsSeen(p) :
            IsBlank(RowsOf(p)[r].text) \/ LowConfidence(RowsOf(p)[r])) =>
            /\ \A i \in 1..WordsSeen(p) :
                 /\ (IsBlank(RowsOf(p)[i].text) \/ LowConfidence(RowsOf(p)[i])) =>
                        ~InSeq(<<p, i>>, writeLog)
                 /\ (/\ GoodWord(RowsOf(p)[i])
                     /\ ~MeasureFails(RowsOf(p)[i])
                     /\ ~WriteFails(RowsOf(p)[i])) => InSeq(<<p, i>>, writeLog)
            /\ PageDone(p) => (processed = Cardinality(CountedPages) /\ processed > 0)
            /\ (p = pnum /\ pc = "raised") => ~IsInteger(data[widx].conf)

C19_Witness ==
    /\ pc = "returned"
    /\ result = <<TRUE, 1>>
    /\ \E p \in OcrPages :
         /\ Len(RowsOf(p)) = 2
         /\ Confidence(RowsOf(p)[1]) = 0 - 1
         /\ GoodWord(RowsOf(p)[2])
         /\ writeLog = <<<<p, 2>>>>
         /\ Len(pageText[p + 1]) = 1

\* C20: left and width are multiplied by sx = pageWidth / bitmapWidth, top
\* and height by sy = pageHeight / bitmapHeight; on a 1024x1024 bitmap of a
\* 512x512 page the box (100, 100, 200, 40) maps to (50, 50, 100, 20) and
\* its first font size estimate is 17.
C20_PixelToPageMapping ==
    (/\ pc = "word"
     /\ widx > 1
     /\ writeLog # <<>>
     /\ writeLog[Len(writeLog)] = <<pnum, widx - 1>>) =>
        LET w == data[widx - 1]
            sz == rast[pnum + 1].size
            e == pageText[pnum + 1][Len(pageText[pnum + 1])]
            y == Rat(w.top * PageRect[2], sz[2])
            h == Rat(w.height * PageRect[2], sz[2])
        IN  /\ e.x = Rat(w.left * PageRect[1], sz[1])
            /\ e.y = RAdd(y, RMul(h, <<85, 100>>))
            /\ PageBox(w, scale).w = Rat(w.width * PageRect[1], sz[1])
            /\ (/\ sz = <<1024, 1024>>
                /\ PageRect = <<512, 512>>
                /\ <<w.left, w.top, w.width, w.height>> = <<100, 100, 200, 40>>) =>
                   /\ PageBox(w, scale) =
                        [x |-> <<50, 1>>, y |-> <<50, 1>>, w |-> <<100, 1>>, h |-> <<20, 1>>]
                   /\ InitialFontSize(PageBox(w, scale)) = <<17, 1>>
                   /\ e.x = <<50, 1>>
                   /\ e.y = <<67, 1>>

C20_Witness ==
    /\ pc = "word"
    /\ widx = 2
    /\ rast[pnum + 1].size = <<1024, 1024>>
    /\ data[1] = Word(Hi, <<"9", "0">>, 100, 100, 200, 40)
    /\ writeLog = <<<<pnum, 1>>>>
    /\ pageText[pnum + 1][1].x = <<50, 1>>
    /\ pageText[pnum + 1][1].y = <<67, 1>>

\* ---------------------------------------------------------- C21 .. C30
\* the page box b with its four components multiplied by k
ScaledBox(b, k) ==
    [x |-> RMul(RInt(k), b.x), y |-> RMul(RInt(k), b.y),
     w |-> RMul(RInt(k), b.w), h |-> RMul(RInt(k), b.h)]

\* C21: the pixel-to-page mapping is linear: on a bitmap of positive width
\* and height, the pixel box scaled by k in its four components maps to the
\* page box of the original scaled by k in its four components.
C21_MappingLinear ==
    (/\ pc = "word"
     /\ Len(data) = 2
     /\ rast[pnum + 1].size[1] > 0
     /\ rast[pnum + 1].size[2] > 0) =>
        \A k \in 0..MaxFactor :
            data[2] = ScaledWord(data[1], k) =>
                PageBox(data[2], scale) = ScaledBox(PageBox(data[1], scale), k)

C21_Witness ==
    /\ pc = "word"
    /\ widx = 3
    /\ rast[pnum + 1].size = <<300, 1024>>
    /\ data[1] = BoxWord(1, 2, 2, 1)
    /\ data[2] = ScaledWord(data[1], 2)
    /\ PageBox(data[2], scale).x = Rat(1024, 300)
    /\ Len(pageText[pnum + 1]) = 2

\* an entry that paints: PDF text render modes 3 and 7 neither fill nor stroke
Paints(e) == e.render_mode \notin {3, 7}
\* what of a page's text shows when the page is rendered
Visible(text) == SelectSeq(text, Paints)

\* C22: every entry the pass writes is an invisible placement (render mode
\* 3) in the fixed base font, so no page shows anything after the pass that
\* it did not show before (the pages start without text).
C22_EntriesInvisible ==
    \A p \in 1..Len(pageText) :
        /\ Visible(pageText[p]) = <<>>
        /\ \A k \in 1..Len(pageText[p]) :
             /\ pageText[p][k].render_mode = 3
             /\ pageText[p][k].fontname = "helv"

C22_Witness ==
    /\ pc = "returned"
    /\ result = <<TRUE, 1>>
    /\ Len(writeLog) = 2
    /\ \E p \in 1..Len(pageText) :
         /\ Len(pageText[p]) = 2
         /\ Visible(pageText[p]) = <<>>

\* C23: within a page no entry is written before every word of the page
\* has been fitted: while a page's word loop still has a word to fit, none
\* of the page's entries is on the page yet.
C23_FitBeforeWrite ==
    (pc = "word" /\ \E j \in widx..Len(data) : GoodWord(data[j])) =>
        pageText[pnum + 1] = <<>>

\* a sequence of numbers, each greater than the one before
Increasing(s) == \A k \in 1..(Len(s) - 1) : s[k] < s[k + 1]
\* a sequence of <<page, word>> pairs in the order of pages, then of words
IncreasingPairs(s) ==
    \A k \in 1..(Len(s) - 1) :
        \/ s[k][1] < s[k + 1][1]
        \/ s[k][1] = s[k + 1][1] /\ s[k][2] < s[k + 1][2]
\* the writes of page p, oldest first
WritesOf(p) == SelectSeq(writeLog, LAMBDA e : e[1] = p)
\* sx, sy of page p, from its bitmap
ScaleOf(p) == <<Rat(PageRect[1], rast[p + 1].size[1]), Rat(PageRect[2], rast[p + 1].size[2])>>

\* C24: in a whole-document pass the pages are visited in increasing index,
\* each at most once, and within a page the words are fitted and written in
\* the order the OCR adapter returned them: the page's entries are those of
\* its written rows, in the rows' order.
C24_PageAndWordOrder ==
    /\ page_num = <<>> =>
         /\ Increasing(cbLog)
         /\ Increasing(renderLog)
         /\ Increasing(ocrLog)
    /\ IncreasingPairs(measureLog)
    /\ IncreasingPairs(writeLog)
    /\ \A p \in OcrPages :
         LET ws == WritesOf(p)
             sc == ScaleOf(p)
         IN  /\ Len(pageText[p + 1]) = Len(ws)
             /\ \A k \in 1..Len(ws) :
                  pageText[p + 1][k] = Entry(RowsOf(p)[ws[k][2]], sc)

C24_Witness ==
    /\ pc = "returned"
    /\ page_num = <<>>
    /\ callback = "ok"
    /\ cbLog = <<0, 1>>
    /\ renderLog = <<0, 1>>
    /\ ocrLog = <<0, 1>>
    /\ writeLog = <<<<0, 1>>, <<0, 2>>>>
    /\ pageText[1][1].x # pageText[1][2].x

\* clamp(v, 4, 72) of the reference fit
RefClamp(v) ==
    IF RLt(v, RInt(4)) THEN RInt(4) ELSE IF RLt(RInt(72), v) THEN RInt(72) ELSE v
\* the reference font size for a page box: the estimate from the height,
\* rescaled once by width / measured width when both are positive
RefFontSize(box, text) ==
    LET est == RefClamp(RMul(<<85, 100>>, box.h))
        tl == get_text_length(text, est)
    IN  IF RLt(RInt(0), tl) /\ RLt(RInt(0), box.w)
        THEN RefClamp(RDiv(RMul(est, box.w), tl))
        ELSE est

\* C25: the entry written for an accepted word with page box (x, y, w, h)
\* is the reference fit: anchor (x, y + 0.85 h), font size
\* clamp(0.85 h, 4, 72) rescaled once to clamp(size * w / tl, 4, 72) when
\* tl > 0 and w > 0 and left as it is otherwise; the width of a word is
\* measured once.
C25_ReferenceFit ==
    /\ \A j, k \in 1..Len(measureLog) : j # k => measureLog[j] # measureLog[k]
    /\ \A p \in OcrPages : LET ws == WritesOf(p) IN \A k \in 1..Len(ws) :
         LET row == RowsOf(p)[ws[k][2]]
             e == pageText[p + 1][k]
             x == Rat(row.left * PageRect[1], rast[p + 1].size[1])
             y == Rat(row.top * PageRect[2], rast[p + 1].size[2])
             w == Rat(row.width * PageRect[1], rast[p + 1].size[1])
             h == Rat(row.height * PageRect[2], rast[p + 1].size[2])
         IN  /\ e.x = x
             /\ e.y = RAdd(y, RMul(<<85, 100>>, h))
             /\ e.fontsize = RefFontSize([x |-> x, y |-> y, w |-> w, h |-> h], e.text)
             /\ InSeq(ws[k], measureLog)

C25_Witness ==
    /\ pc = "word"
    /\ widx = 3
    /\ writeLog = <<<<pnum, 1>>, <<pnum, 2>>>>
    /\ data[1].width = 0
    /\ pageText[pnum + 1][1].fontsize = <<72, 1>>
    /\ <<data[2].left, data[2].top, data[2].width, data[2].height>> = <<10, 10, 40, 4>>
    /\ pageText[pnum + 1][2].y = <<67, 10>>
    /\ pageText[pnum + 1][2].fontsize = <<20, 1>>

\* how many times row i of page p was written
TimesWritten(p, i) == Cardinality({k \in 1..Len(writeLog) : writeLog[k] = <<p, i>>})

\* C26: in one pass every recognized word yields at most one entry: one
\* for an accepted word whose measurement and write succeed, none for a
\* rejected word; a page never gains more entries than the OCR adapter
\* returned words for it.
C26_OneEntryPerWord ==
    /\ \A p \in 0..(Len(pageText) - 1) :
         IF p \in OcrPages
         THEN /\ Len(pageText[p + 1]) = Len(WritesOf(p))
              /\ Len(pageText[p + 1]) <= Len(RowsOf(p))
              /\ \A i \in 1..Len(RowsOf(p)) : TimesWritten(p, i) <= 1
              /\ \A i \in 1..WordsSeen(p) :
                   LET row == RowsOf(p)[i] IN
                   /\ (GoodWord(row) /\ ~MeasureFails(row) /\ ~WriteFails(row)) =>
                          TimesWritten(p, i) = 1
                   /\ ~GoodWord(row) => TimesWritten(p, i) = 0
         ELSE pageText[p + 1] = <<>>
    /\ \A k \in 1..Len(writeLog) :
         writeLog[k][1] \in OcrPages /\ writeLog[k][2] \in 1..Len(RowsOf(writeLog[k][1]))

C26_Witness ==
    /\ pc = "page"
    /\ processed = 1
    /\ Len(RowsOf(pnum)) = 2
    /\ TimesWritten(pnum, 1) = 1
    /\ TimesWritten(pnum, 2) = 1
    /\ Len(pageText[pnum + 1]) = 2

\* every element of the sequence s is x
OnlyOf(s, x) == \A k \in 1..Len(s) : s[k] = x

\* C27: called with a page_num, make_searchable touches that page only: no
\* other page is rasterized, recognized or written, and the count is 0 or
\* 1; a page_num outside 0..page_count-1 gives (False, 0) with no callback
\* call and no change to the document or its modified flag.
C27_SinglePage ==
    (run > 0 /\ page_num # <<>>) =>
        /\ OnlyOf(cbLog, page_num[1])
        /\ OnlyOf(renderLog, page_num[1])
        /\ OnlyOf(ocrLog, page_num[1])
        /\ \A k \in 1..Len(writeLog) : writeLog[k][1] = page_num[1]
        /\ \A p \in 0..(Len(pageText) - 1) : p # page_num[1] => pageText[p + 1] = <<>>
        /\ Len(renderLog) <= 1
        /\ processed \in {0, 1}
        /\ pc = "returned" => result[2] \in {0, 1}
        /\ (page_num[1] < 0 \/ page_num[1] >= page_count) =>
             /\ pc # "raised"
             /\ pc = "returned" => result = <<FALSE, 0>>
             /\ cbLog = <<>>
             /\ renderLog = <<>>
             /\ \A p \in 1..Len(pageText) : pageText[p] = <<>>
             /\ is_modified = modifiedBefore

C27_Witness ==
    /\ pc = "returned"
    /\ page_num = <<1>>
    /\ page_count = 2
    /\ callback = "ok"
    /\ cbLog = <<1>>
    /\ renderLog = <<1>>
    /\ result = <<TRUE, 1>>
    /\ Len(pageText[2]) = 2

\* C28: when the OCR library cannot be loaded, make_searchable returns
\* (False, 0) at once: the callback is not called, no page is rasterized,
\* recognized or written, and is_modified is as it was.
C28_NoLibraryFails ==
    (run > 0 /\ ~ocrLib) =>
        /\ pc = "returned"
        /\ result = <<FALSE, 0>>
        /\ cbLog = <<>>
        /\ renderLog = <<>>
        /\ ocrLog = <<>>
        /\ measureLog = <<>>
        /\ writeLog = <<>>
        /\ \A p \in 1..Len(pageText) : pageText[p] = <<>>
        /\ is_modified = modifiedBefore

C28_Witness ==
    /\ ~ocrLib
    /\ pc = "returned"
    /\ page_count = 2
    /\ page_num = <<>>
    /\ callback = "raises"
    /\ result = <<FALSE, 0>>
    /\ is_modified

\* the thread of worker w has ended, by a return or by an exception
ThreadOver(w) == workers[w].pc \in {"posted", "done", "died"}

\* C29: whatever happens inside the pass, _ocr_done is scheduled once and
\* the progress dialog is destroyed: once a worker's thread has ended, its
\* _ocr_done is waiting to run or its dialog is gone, and it is never
\* scheduled twice.
C29_DoneAlwaysScheduled ==
    \A w \in 1..Len(workers) :
        /\ ThreadOver(w) => (InSeq(w, afterQueue) \/ w \notin dialogs)
        /\ Cardinality({k \in 1..Len(afterQueue) : afterQueue[k] = w}) <= 1

\* C30: every open document has an id of its own: a document made or
\* opened and not closed since is the entry of some id in the documents
\* map, so no new document has taken the id of one that is still open.
C30_DistinctIds ==
    \A i \in 1..Len(heap) :
        heap[i].open => \E id \in DOMAIN documents : documents[id] = i
====
